---- MODULE Spec2Model ----
(***************************************************************************)
(* CornerKickPlay (software/ai/hl/stp/play/corner_kick_play.cpp) as a      *)
(* state machine.  getNextTactics is a coroutine: a resumption runs the    *)
(* code from the yield it was suspended at up to the next yield (or to the *)
(* end of the function).  The tactics, the pass generator and the world    *)
(* are the environment: they change between resumptions.                   *)
(*                                                                         *)
(* Times are integers in an arbitrary unit; ratings and scores are exact   *)
(* fractions (records num/den), so 1 - min(t/T, 1) is computed exactly.    *)
(***************************************************************************)
EXTENDS Integers, Sequences, FiniteSets

\* ------------------------------------------------------------------ bounds
MaxTime == 3            \* world timestamps range over 0..MaxTime
MaxCommitTime == 2      \* MAX_TIME_TO_COMMIT_TO_PASS ranges over 1..MaxCommitTime
RatingScale == 2        \* ratings are k/RatingScale, k in 0..RatingScale
NumPasses == 2          \* candidate passes are 1..NumPasses
NumRobots == 1          \* robot ids are 0..NumRobots-1

Times == 0..MaxTime
Balls == {-1, 1}        \* the ball's position: its y coordinate, one on each side
Passes == 1..NumPasses
Robots == 0..(NumRobots - 1)

\* ------------------------------------------------------- exact fractions
Rat(n, d) == [num |-> n, den |-> d]
RatLess(a, b) == a.num * b.den < b.num * a.den
RatMin(a, b) == IF RatLess(b, a) THEN b ELSE a
RatSub(a, b) == Rat(a.num * b.den - b.num * a.den, a.den * b.den)
RatOne == Rat(1, 1)

Ratings == {Rat(k, RatingScale) : k \in 0..RatingScale}
PassWithRating == [pass : Passes, rating : Ratings]
Worlds == [timestamp : Times, ball : Balls]

VARIABLES
    play,                        \* the coroutine frame of getNextTactics/setupPass
    MAX_TIME_TO_COMMIT_TO_PASS,  \* the member read from the configuration
    assigned_robot,              \* align_to_ball_tactic->getAssignedRobot(): {} or {id}
    align_done,                  \* align_to_ball_tactic->done()
    receiver_done,               \* receiver->done()
    call,                        \* the last call of a const method of the play
    ball                         \* the PhysicsBall object, its body and its callers

vars == <<play, MAX_TIME_TO_COMMIT_TO_PASS, assigned_robot, align_done, receiver_done,
          call, ball>>
envVars == <<assigned_robot, align_done, receiver_done>>
playVars == <<play, MAX_TIME_TO_COMMIT_TO_PASS, assigned_robot, align_done, receiver_done>>

\* ----------------------------------------------------- tactic instances
\* make_shared<...>: a new instance at the end of the heap; its handle is its index
Tactic(type, ctor) == [type |-> type, ctor |-> ctor, params |-> <<>>]
make_shared(f, local, type, ctor) ==
    [f EXCEPT !.heap = Append(f.heap, Tactic(type, ctor)),
              ![local] = Len(f.heap) + 1]
updateControlParams(f, handle, p) == [f EXCEPT !.heap[handle].params = p]
yield(f, tactics, at) == [f EXCEPT !.yielded = Append(f.yielded, tactics), !.pc = at]

\* ------------------------------------------------------ pass generator
NoWorld == [timestamp |-> 0, ball |-> 0]
NoPass == [pass |-> 1, rating |-> Rat(0, RatingScale)]
\* the slot of pass_generator while no generator exists
NoGenerator == [alive |-> FALSE, world |-> NoWorld, passer_point |-> 0,
                passer_robot_id |-> {}, target_region |-> "none",
                best_pass_so_far |-> NoPass]
\* PassGenerator(world, passer_point, ...): best is the incumbent it starts with
PassGenerator(w, p, best) ==
    [alive |-> TRUE, world |-> w, passer_point |-> p, passer_robot_id |-> {},
     target_region |-> "none", best_pass_so_far |-> best]
setTargetRegion(f, r) == [f EXCEPT !.pass_generator.target_region = r]
Call(f, name) == [f EXCEPT !.generator_calls = Append(f.generator_calls, name)]
setWorld(f, w) == Call([f EXCEPT !.pass_generator.world = w], "setWorld")
setPasserPoint(f, p) ==
    Call([f EXCEPT !.pass_generator.passer_point = p], "setPasserPoint")
setPasserRobotId(f, id) ==
    Call([f EXCEPT !.pass_generator.passer_robot_id = {id}], "setPasserRobotId")
\* mutant: the value read is discarded
getBestPassSoFar_discarded(f) == Call(f, "getBestPassSoFar")
getBestPassSoFar(f) ==
    Call([f EXCEPT !.best_pass_and_score_so_far = f.pass_generator.best_pass_so_far],
         "getBestPassSoFar")

updateAlignToBallTactic(f) ==
    updateControlParams(f, f.align_to_ball_tactic, <<f.world.ball>>)

updatePassGenerator(f) == setPasserPoint(setWorld(f, f.world), f.world.ball)

\* mutant: one cherry-pick tactic left out / the passer yielded twice
PreCommitSet_noCherry(f) ==
    <<f.goalie_tactic, f.align_to_ball_tactic, f.cherry_pick_tactic_pos_y,
      f.bait_move_tactic_1, f.bait_move_tactic_2>>
ExecuteSet_dup(f) ==
    <<f.goalie_tactic, f.passer, f.passer, f.bait_move_tactic_1,
      f.bait_move_tactic_2>>
\* the tactic sets the play yields
PreCommitSet(f) ==
    <<f.goalie_tactic, f.align_to_ball_tactic, f.cherry_pick_tactic_pos_y,
      f.cherry_pick_tactic_neg_y, f.bait_move_tactic_1, f.bait_move_tactic_2>>
ExecuteSet(f) ==
    <<f.goalie_tactic, f.passer, f.receiver, f.bait_move_tactic_1,
      f.bait_move_tactic_2>>

\* ------------------------------------------------ getNextTactics, part 2
\* the body of the execute loop up to its yield
ExecuteLoopBody(f) ==
    LET f1 == updateControlParams(f, f.passer, <<f.pass>>)
        f2 == updateControlParams(f1, f.receiver, <<f.pass>>)
    IN  yield(f2, ExecuteSet(f2), "executing")

\* mutants: while (receiver->done()); one more yield after the loop
ExecuteLoopCond_inverted(f) ==
    IF receiver_done THEN ExecuteLoopBody(f) ELSE [f EXCEPT !.pc = "finished"]
ExecuteLoopCond_yieldOnExit(f) ==
    IF ~receiver_done THEN ExecuteLoopBody(f)
    ELSE yield(f, ExecuteSet(f), "finished")
\* resumed at the execute yield: the loop condition, then the end of the function
ExecuteLoopCond(f) ==
    IF ~receiver_done THEN ExecuteLoopBody(f) ELSE [f EXCEPT !.pc = "finished"]

\* mutant: a second goalie is constructed at the commit
CommitPass_newGoalie(f) ==
    LET f1 == [f EXCEPT !.pass = f.best_pass_and_score_so_far.pass]
        f2 == [f1 EXCEPT !.pass_generator = NoGenerator]
        f3 == make_shared(f2, "passer", "PasserTactic", <<f2.pass>>)
        f4 == make_shared(f3, "receiver", "ReceiverTactic", <<f3.pass>>)
    IN  ExecuteLoopBody(make_shared(f4, "goalie_tactic", "GoalieTactic", <<>>))
\* setupPass returns (its pass_generator goes out of scope); the passer and the
\* receiver are constructed
CommitPass(f) ==
    LET f1 == [f EXCEPT !.pass = f.best_pass_and_score_so_far.pass]
        f2 == [f1 EXCEPT !.pass_generator = NoGenerator]
        f3 == make_shared(f2, "passer", "PasserTactic", <<f2.pass>>)
        f4 == make_shared(f3, "receiver", "ReceiverTactic", <<f3.pass>>)
    IN  ExecuteLoopBody(f4)

\* ------------------------------------------------------ setupPass, loops
DecideLoopBody(f) ==
    LET f1 == updatePassGenerator(updateAlignToBallTactic(f))
    IN  yield(f1, PreCommitSet(f1), "deciding")

\* mutants: the threshold grows with the elapsed time; the ratio is not clamped
MinScore_growing(elapsed, T) == RatMin(Rat(elapsed, T), RatOne)
MinScore_noClamp(elapsed, T) == RatSub(RatOne, Rat(elapsed, T))
\* mutant: the elapsed time is taken as 0, so the threshold never decays
MinScore_noDecay(elapsed, T) == RatSub(RatOne, RatMin(Rat(0, T), RatOne))
\* min_score = 1 - std::min(elapsed / MAX_TIME_TO_COMMIT_TO_PASS, 1.0)
MinScore(elapsed, T) == RatSub(RatOne, RatMin(Rat(elapsed, T), RatOne))

\* mutant: <= for <
DecideLoopContinues_le(rating, min_score) == ~RatLess(min_score, rating)
\* while (best_pass_and_score_so_far.rating < min_score)
DecideLoopContinues(rating, min_score) == RatLess(rating, min_score)

\* resumed at the decide yield: read the best pass, recompute min_score, test
DecideAfterYield(f) ==
    LET f1 == getBestPassSoFar(f)
        time_since_commit_stage_start ==
            f1.world.timestamp - f1.commit_stage_start_time
        f2 == [f1 EXCEPT !.min_score =
                  MinScore(time_since_commit_stage_start, MAX_TIME_TO_COMMIT_TO_PASS)]
    IN  IF DecideLoopContinues(f2.best_pass_and_score_so_far.rating, f2.min_score)
        THEN DecideLoopBody(f2)
        ELSE CommitPass(f2)

\* mutant: a while loop for the do-while, tested on the pass read at line 153
DecideEntry_while(f) ==
    LET f1 == [f EXCEPT !.min_score = RatOne,
                        !.commit_stage_start_time = f.world.timestamp]
    IN  IF RatLess(f1.best_pass_and_score_so_far.rating, f1.min_score)
        THEN DecideLoopBody(f1)
        ELSE CommitPass(f1)
DecideEntry(f) ==
    DecideLoopBody([f EXCEPT !.min_score = RatOne,
                             !.commit_stage_start_time = f.world.timestamp])

AlignLoopBody(f) ==
    LET f1 == updatePassGenerator(updateAlignToBallTactic(f))
    IN  yield(f1, PreCommitSet(f1), "aligning")

\* mutant: while (align_to_ball_tactic->done())
AlignLoopCond_inverted(f) ==
    IF align_done THEN AlignLoopBody(f) ELSE DecideEntry(f)
\* resumed at the align yield: the loop condition
AlignLoopCond(f) ==
    IF ~align_done THEN AlignLoopBody(f) ELSE DecideEntry(f)

\* mutants: the passer is never registered; the align loop is a while loop
AssignLoop_noRegister(f) ==
    IF assigned_robot = {}
    THEN LET f1 == updatePassGenerator(updateAlignToBallTactic(f))
         IN  yield(f1, PreCommitSet(f1), "wait_assign")
    ELSE AlignLoopBody(f)
AssignLoop_whileAlign(f) ==
    IF assigned_robot = {}
    THEN LET f1 == updatePassGenerator(updateAlignToBallTactic(f))
         IN  yield(f1, PreCommitSet(f1), "wait_assign")
    ELSE AlignLoopCond(setPasserRobotId(f, CHOOSE id \in assigned_robot : TRUE))
\* the wait-for-assignment loop, from its condition
AssignLoop(f) ==
    IF assigned_robot = {}
    THEN LET f1 == updatePassGenerator(updateAlignToBallTactic(f))
         IN  yield(f1, PreCommitSet(f1), "wait_assign")
    ELSE AlignLoopBody(setPasserRobotId(f, CHOOSE id \in assigned_robot : TRUE))

\* ------------------------------------------------------ setupPass, start
setupPass(f, best) ==
    LET f1 == make_shared(f, "align_to_ball_tactic", "MoveTactic", <<FALSE>>)
        f2 == make_shared(f1, "cherry_pick_tactic_pos_y", "CherryPickTactic", <<1>>)
        f3 == make_shared(f2, "cherry_pick_tactic_neg_y", "CherryPickTactic", <<-1>>)
        f4 == [f3 EXCEPT !.pass_generator =
                  PassGenerator(f.world, f.world.ball, best)]
        f5 == setTargetRegion(f4, "enemy_half")
    IN  AssignLoop(getBestPassSoFar(f5))

\* ------------------------------------------------ getNextTactics, part 1
getNextTactics(f, best) ==
    LET opposite_corner_to_kick == IF f.world.ball > 0 THEN -1 ELSE 1
        f1 == make_shared(f, "goalie_tactic", "GoalieTactic", <<>>)
        f2 == make_shared(f1, "bait_move_tactic_1", "MoveTactic", <<TRUE>>)
        f3 == make_shared(f2, "bait_move_tactic_2", "MoveTactic", <<TRUE>>)
        f4 == updateControlParams(f3, f3.bait_move_tactic_1,
                                  <<opposite_corner_to_kick, 1>>)
        f5 == updateControlParams(f4, f4.bait_move_tactic_2,
                                  <<opposite_corner_to_kick, 3>>)
    IN  setupPass(f5, best)

\* ----------------------------------------------------------------- Init
\* no const method called yet; no PhysicsBall constructed
NoCall == [fn |-> "none"]
NoBall == [constructed |-> FALSE]

CornerKickPlay(T) ==
    [pc |-> "start", world |-> NoWorld, heap |-> <<>>,
     goalie_tactic |-> 0, bait_move_tactic_1 |-> 0, bait_move_tactic_2 |-> 0,
     align_to_ball_tactic |-> 0, cherry_pick_tactic_pos_y |-> 0,
     cherry_pick_tactic_neg_y |-> 0, passer |-> 0, receiver |-> 0,
     pass_generator |-> NoGenerator,
     generator_calls |-> <<>>,
     best_pass_and_score_so_far |-> NoPass,
     min_score |-> RatOne, commit_stage_start_time |-> 0, pass |-> 0,
     yielded |-> <<>>]

Init ==
    /\ MAX_TIME_TO_COMMIT_TO_PASS \in 1..MaxCommitTime
    /\ play = CornerKickPlay(MAX_TIME_TO_COMMIT_TO_PASS)
    /\ assigned_robot = {}
    /\ align_done = FALSE
    /\ receiver_done = FALSE
    /\ call = NoCall
    /\ ball = NoBall

\* -------------------------------------------------------------- actions
\* one resumption with the world snapshot w: the code from the point of suspension
\* to the next yield
Resumed(w) == [play EXCEPT !.world = w, !.yielded = <<>>, !.generator_calls = <<>>]

ResumeStart ==
    /\ play.pc = "start"
    /\ \E w \in Worlds, best \in PassWithRating :
          play' = getNextTactics(Resumed(w), best)
    /\ UNCHANGED <<MAX_TIME_TO_COMMIT_TO_PASS, envVars>>
    /\ UNCHANGED <<call, ball>>

Later(w) == w \in Worlds /\ w.timestamp >= play.world.timestamp

ResumeWaitAssign ==
    /\ play.pc = "wait_assign"
    /\ \E w \in Worlds : Later(w) /\ play' = AssignLoop(Resumed(w))
    /\ UNCHANGED <<MAX_TIME_TO_COMMIT_TO_PASS, envVars>>
    /\ UNCHANGED <<call, ball>>

ResumeAligning ==
    /\ play.pc = "aligning"
    /\ \E w \in Worlds : Later(w) /\ play' = AlignLoopCond(Resumed(w))
    /\ UNCHANGED <<MAX_TIME_TO_COMMIT_TO_PASS, envVars>>
    /\ UNCHANGED <<call, ball>>

ResumeDeciding ==
    /\ play.pc = "deciding"
    /\ \E w \in Worlds : Later(w) /\ play' = DecideAfterYield(Resumed(w))
    /\ UNCHANGED <<MAX_TIME_TO_COMMIT_TO_PASS, envVars>>
    /\ UNCHANGED <<call, ball>>

ResumeExecuting ==
    /\ play.pc = "executing"
    /\ \E w \in Worlds : Later(w) /\ play' = ExecuteLoopCond(Resumed(w))
    /\ UNCHANGED <<MAX_TIME_TO_COMMIT_TO_PASS, envVars>>
    /\ UNCHANGED <<call, ball>>

\* the environment: robot assignment, the tactics' progress, and the pass
\* generator refining its incumbent between the play's calls
AlignTacticLives == play.pc \in {"wait_assign", "aligning", "deciding"}
GeneratorLives == play.pass_generator.alive
ReceiverLives == play.pc = "executing"

AssignRobot ==
    /\ AlignTacticLives
    /\ \E r \in {{}} \cup {{id} : id \in Robots} :
          r # assigned_robot /\ assigned_robot' = r
    /\ UNCHANGED <<play, MAX_TIME_TO_COMMIT_TO_PASS, align_done, receiver_done>>
    /\ UNCHANGED <<call, ball>>

AlignTacticProgress ==
    /\ AlignTacticLives
    /\ align_done' = ~align_done
    /\ UNCHANGED <<play, MAX_TIME_TO_COMMIT_TO_PASS, assigned_robot, receiver_done>>
    /\ UNCHANGED <<call, ball>>

ReceiverTacticProgress ==
    /\ ReceiverLives
    /\ receiver_done' = ~receiver_done
    /\ UNCHANGED <<play, MAX_TIME_TO_COMMIT_TO_PASS, assigned_robot, align_done>>
    /\ UNCHANGED <<call, ball>>

GeneratorRefine ==
    /\ GeneratorLives
    /\ \E b \in PassWithRating :
          /\ b # play.pass_generator.best_pass_so_far
          /\ play' = [play EXCEPT !.pass_generator.best_pass_so_far = b]
    /\ UNCHANGED <<MAX_TIME_TO_COMMIT_TO_PASS, envVars>>
    /\ UNCHANGED <<call, ball>>

Next ==
    \/ ResumeStart
    \/ ResumeWaitAssign
    \/ ResumeAligning
    \/ ResumeDeciding
    \/ ResumeExecuting
    \/ AssignRobot
    \/ AlignTacticProgress
    \/ ReceiverTacticProgress
    \/ GeneratorRefine

Spec == Init /\ [][Next]_vars

\* ------------------------------------- isApplicable, invariantHolds (const)
\* Lengths on the field are integers in units of half BALL_IN_CORNER_RADIUS; the
\* ball is on the grid points of the field.  Distances are compared by their
\* squares (length() is the square root of LengthSquared, and is monotone).
FieldX == 3             \* the field spans -FieldX..FieldX
FieldY == 2             \*             and -FieldY..FieldY
BALL_IN_CORNER_RADIUS == 2
Points == (-FieldX..FieldX) \X (-FieldY..FieldY)
enemyCornerPos == <<FieldX, FieldY>>
enemyCornerNeg == <<FieldX, -FieldY>>
LengthSquared(v) == v[1] * v[1] + v[2] * v[2]
Minus(a, b) == <<a[1] - b[1], a[2] - b[2]>>
Min(a, b) == IF b < a THEN b ELSE a

\* the worlds isApplicable is evaluated on: who holds an awarded free kick (at
\* most one team), and where the ball is
ApplicableWorlds ==
    {w \in [isOurFreeKick : BOOLEAN, isTheirFreeKick : BOOLEAN, ball : Points] :
        ~(w.isOurFreeKick /\ w.isTheirFreeKick)}
\* the worlds invariantHolds is evaluated on: the results of the four predicates
InvariantWorlds ==
    [isPlaying : BOOLEAN, isReadyState : BOOLEAN,
     enemyHasPossession : BOOLEAN, friendlyPassInProgress : BOOLEAN]

\* mutants: < for <=; the free kick of the other team
isApplicable_strict(world) ==
    LET min_dist_to_corner_squared ==
            Min(LengthSquared(Minus(enemyCornerPos, world.ball)),
                LengthSquared(Minus(enemyCornerNeg, world.ball)))
    IN  /\ world.isOurFreeKick
        /\ min_dist_to_corner_squared < BALL_IN_CORNER_RADIUS * BALL_IN_CORNER_RADIUS
isApplicable_theirs(world) ==
    LET min_dist_to_corner_squared ==
            Min(LengthSquared(Minus(enemyCornerPos, world.ball)),
                LengthSquared(Minus(enemyCornerNeg, world.ball)))
    IN  /\ world.isTheirFreeKick
        /\ min_dist_to_corner_squared <= BALL_IN_CORNER_RADIUS * BALL_IN_CORNER_RADIUS
isApplicable(world) ==
    LET min_dist_to_corner_squared ==
            Min(LengthSquared(Minus(enemyCornerPos, world.ball)),
                LengthSquared(Minus(enemyCornerNeg, world.ball)))
    IN  /\ world.isOurFreeKick
        /\ min_dist_to_corner_squared <= BALL_IN_CORNER_RADIUS * BALL_IN_CORNER_RADIUS

\* mutant: && for the inner ||
invariantHolds_and(world) ==
    /\ (world.isPlaying \/ world.isReadyState)
    /\ (~world.enemyHasPossession /\ world.friendlyPassInProgress)
invariantHolds(world) ==
    /\ (world.isPlaying \/ world.isReadyState)
    /\ (~world.enemyHasPossession \/ world.friendlyPassInProgress)

\* a play constructed from the configuration, and its const methods called on
\* arbitrary worlds; the threshold expression of setupPass evaluated on arbitrary
\* elapsed times
EvalInit ==
    /\ MAX_TIME_TO_COMMIT_TO_PASS \in 1..MaxCommitTime
    /\ play = CornerKickPlay(MAX_TIME_TO_COMMIT_TO_PASS)
    /\ assigned_robot = {}
    /\ align_done = FALSE
    /\ receiver_done = FALSE
    /\ call = NoCall
    /\ ball = NoBall

CallIsApplicable ==
    /\ \E w \in ApplicableWorlds :
          call' = [fn |-> "isApplicable", world |-> w, result |-> isApplicable(w)]
    /\ UNCHANGED <<playVars, ball>>

CallInvariantHolds ==
    /\ \E w \in InvariantWorlds :
          call' = [fn |-> "invariantHolds", world |-> w, result |-> invariantHolds(w)]
    /\ UNCHANGED <<playVars, ball>>

EvalMinScore ==
    /\ \E t \in Times :
          call' = [fn |-> "min_score", elapsed |-> t,
                   result |-> MinScore(t, MAX_TIME_TO_COMMIT_TO_PASS)]
    /\ UNCHANGED <<playVars, ball>>

EvalNext ==
    \/ CallIsApplicable
    \/ CallInvariantHolds
    \/ EvalMinScore

EvalSpec == EvalInit /\ [][EvalNext]_vars

\* ------------------------------------------------------------ PhysicsBall
\* (software/simulation/physics/physics_ball.cpp)  The ball moves along a line:
\* positions and flight distances are whole metres, so the distance between two
\* positions is the absolute value of their difference.  Heights are doubles:
\* exact fractions, or the IEEE values the divisions of
\* calculateDistanceFromGround produce for a zero divisor (NaN, +inf, -inf).
\* Rounding is not modelled.
MaxPosition == 3        \* positions range over 0..MaxPosition
MaxFlight == 2          \* flight distances range over 0..MaxFlight
Positions == 0..MaxPosition
FlightDistances == 0..MaxFlight
Abs(n) == IF n < 0 THEN -n ELSE n

RECURSIVE GCD(_, _)
GCD(a, b) == IF b = 0 THEN a ELSE GCD(b, a % b)
\* the double n/d, d # 0, in lowest terms with a positive denominator
Fin(n, d) ==
    LET g == GCD(Abs(n), Abs(d))
        sgn == IF d < 0 THEN -1 ELSE 1
    IN  [kind |-> "fin", num |-> sgn * (n \div g), den |-> sgn * (d \div g)]
NaN == [kind |-> "nan", num |-> 0, den |-> 1]
Inf(sign) == [kind |-> "inf", num |-> sign, den |-> 1]
Sign(a) == IF a.num < 0 THEN -1 ELSE 1
\* IEEE 754 multiplication, division, subtraction and < ; a zero is +0
DMul(a, b) ==
    IF a.kind = "nan" \/ b.kind = "nan" THEN NaN
    ELSE IF a.kind = "inf" \/ b.kind = "inf"
         THEN IF a.num = 0 \/ b.num = 0 THEN NaN ELSE Inf(Sign(a) * Sign(b))
         ELSE Fin(a.num * b.num, a.den * b.den)
DDiv(a, b) ==
    IF a.kind = "nan" \/ b.kind = "nan" THEN NaN
    ELSE IF a.kind = "inf"
         THEN IF b.kind = "inf" THEN NaN ELSE Inf(Sign(a) * Sign(b))
         ELSE IF b.kind = "inf" THEN Fin(0, 1)
              ELSE IF b.num = 0
                   THEN IF a.num = 0 THEN NaN ELSE Inf(Sign(a))
                   ELSE Fin(a.num * b.den, a.den * b.num)
DSub(a, b) ==
    IF a.kind = "nan" \/ b.kind = "nan" THEN NaN
    ELSE IF a.kind = "inf"
         THEN IF b.kind = "inf" /\ Sign(a) = Sign(b) THEN NaN ELSE a
         ELSE IF b.kind = "inf" THEN Inf(-Sign(b))
              ELSE Fin(a.num * b.den - b.num * a.den, a.den * b.den)
DLess(a, b) ==
    IF a.kind = "nan" \/ b.kind = "nan" THEN FALSE
    ELSE IF a.kind = "inf" THEN Sign(a) < 0 /\ ~(b.kind = "inf" /\ Sign(b) < 0)
         ELSE IF b.kind = "inf" THEN Sign(b) > 0
              ELSE a.num * b.den < b.num * a.den
\* std::max(a, b) == (a < b) ? b : a
StdMax(a, b) == IF DLess(a, b) THEN b ELSE a
\* std::sqrt(q) multiplied by itself
SqrtSquared(q) == IF q.kind = "fin" /\ q.num < 0 THEN NaN ELSE q

\* shared/constants.h
ACCELERATION_DUE_TO_GRAVITY_METERS_PER_SECOND_SQUARED == Fin(981, 100)
ROBOT_MAX_HEIGHT_METERS == Fin(15, 100)

\* an Angle between 0 and 90 degrees (0 included), given by its tangent p/q
Angle(p, q) == [p |-> p, q |-> q]
AngleZero == Angle(0, 1)
Angles == {AngleZero, Angle(1, 2), Angle(1, 1), Angle(2, 1)}
Tan(a) == Fin(a.p, a.q)
CosSquared(a) == Fin(a.q * a.q, a.p * a.p + a.q * a.q)
SinOfDouble(a) == Fin(2 * a.p * a.q, a.p * a.p + a.q * a.q)

\* the object b: the members in_flight_origin (std::nullopt is {}),
\* in_flight_distance_meters, flight_angle_of_departure; its Box2D body (position,
\* touching: some contact of the contact list IsTouching()); result: the last
\* query and what it returned
NoResult == [fn |-> "none"]
PhysicsBall(position) ==
    [constructed |-> TRUE, position |-> position, touching |-> FALSE,
     in_flight_origin |-> {}, in_flight_distance_meters |-> 0,
     flight_angle_of_departure |-> AngleZero, result |-> NoResult]
isTouchingOtherObject(b) == b.touching
distance(p, q) == Abs(p - q)
setInFlightForDistance(b, in_flight_distance, angle_of_departure) ==
    [b EXCEPT !.in_flight_origin = {b.position},
              !.in_flight_distance_meters = in_flight_distance,
              !.flight_angle_of_departure = angle_of_departure]

\* mutants: || for && ; the contacts are not looked at
updateIsInFlight_or(b) ==
    IF b.in_flight_origin # {}
    THEN LET origin == CHOOSE o \in b.in_flight_origin : TRUE
             current_in_flight_distance_meters == distance(b.position, origin)
         IN  IF \/ current_in_flight_distance_meters >= b.in_flight_distance_meters
                \/ ~isTouchingOtherObject(b)
             THEN [b EXCEPT !.in_flight_origin = {}]
             ELSE b
    ELSE b
updateIsInFlight(b) ==
    IF b.in_flight_origin # {}
    THEN LET origin == CHOOSE o \in b.in_flight_origin : TRUE
             current_in_flight_distance_meters == distance(b.position, origin)
         IN  IF /\ current_in_flight_distance_meters >= b.in_flight_distance_meters
                /\ ~isTouchingOtherObject(b)
             THEN [b EXCEPT !.in_flight_origin = {}]
             ELSE b
    ELSE b
\* both return the object after the call and the value returned
isInFlight(b) ==
    LET b1 == updateIsInFlight(b)
    IN  [ball |-> b1, value |-> b1.in_flight_origin # {}]

\* the height of the parabola at the distance x from the origin
Trajectory(b, x) ==
    LET G == ACCELERATION_DUE_TO_GRAVITY_METERS_PER_SECOND_SQUARED
        initial_speed_numerator == DMul(Fin(b.in_flight_distance_meters, 1), G)
        initial_speed_denominator == SinOfDouble(b.flight_angle_of_departure)
        initial_speed_squared ==
            SqrtSquared(DDiv(initial_speed_numerator, initial_speed_denominator))
        y_numerator == DMul(G, Fin(x * x, 1))
        y_denominator == DMul(DMul(Fin(2, 1), initial_speed_squared),
                              CosSquared(b.flight_angle_of_departure))
    IN  DSub(DMul(Tan(b.flight_angle_of_departure), Fin(x, 1)),
             DDiv(y_numerator, y_denominator))
calculateDistanceFromGround(b) ==
    LET r == isInFlight(b)
    IN  IF r.value
        THEN LET origin == CHOOSE o \in r.ball.in_flight_origin : TRUE
                 y == Trajectory(r.ball, distance(r.ball.position, origin))
             IN  [ball |-> r.ball,
                  value |-> IF isTouchingOtherObject(r.ball)
                            THEN StdMax(y, ROBOT_MAX_HEIGHT_METERS)
                            ELSE StdMax(y, Fin(0, 1))]
        ELSE [ball |-> r.ball, value |-> Fin(0, 1)]
getBallState(b) ==
    LET r == calculateDistanceFromGround(b)
    IN  [ball |-> r.ball,
         value |-> [position |-> b.position, distance_from_ground |-> r.value]]

\* a ball constructed at some position, the simulation moving it and changing
\* its contacts, and its callers
BallInit ==
    /\ MAX_TIME_TO_COMMIT_TO_PASS = 1
    /\ play = CornerKickPlay(MAX_TIME_TO_COMMIT_TO_PASS)
    /\ assigned_robot = {}
    /\ align_done = FALSE
    /\ receiver_done = FALSE
    /\ call = NoCall
    /\ \E p \in Positions : ball = PhysicsBall(p)

\* b2World::Step: the body moves, contacts begin and end
WorldStep ==
    /\ \E p \in Positions, t \in BOOLEAN :
          /\ <<p, t>> # <<ball.position, ball.touching>>
          /\ ball' = [ball EXCEPT !.position = p, !.touching = t]
    /\ UNCHANGED <<playVars, call>>

SetInFlightForDistance ==
    /\ \E d \in FlightDistances, a \in Angles :
          ball' = setInFlightForDistance(ball, d, a)
    /\ UNCHANGED <<playVars, call>>

\* the queries log what they return, with the flight and contact state they
\* return in
CallIsInFlight ==
    /\ LET r == isInFlight(ball)
       IN  ball' = [r.ball EXCEPT !.result =
                       [fn |-> "isInFlight", value |-> r.value,
                        in_flight |-> r.ball.in_flight_origin # {},
                        touching |-> r.ball.touching]]
    /\ UNCHANGED <<playVars, call>>

CallGetBallState ==
    /\ LET r == getBallState(ball)
       IN  ball' = [r.ball EXCEPT !.result =
                       [fn |-> "getBallState", value |-> r.value,
                        in_flight |-> r.ball.in_flight_origin # {},
                        touching |-> r.ball.touching]]
    /\ UNCHANGED <<playVars, call>>

BallNext ==
    \/ WorldStep
    \/ SetInFlightForDistance
    \/ CallIsInFlight
    \/ CallGetBallState

BallSpec == BallInit /\ [][BallNext]_vars

\* ------------------------------------------------------- claim helpers
PcOrder == <<"start", "wait_assign", "aligning", "deciding", "executing", "finished">>
Rank(pc) == CHOOSE i \in DOMAIN PcOrder : PcOrder[i] = pc
Contains(set, handle) == \E i \in DOMAIN set : set[i] = handle
Members(set) == {set[i] : i \in DOMAIN set}
PreCommitPcs == {"wait_assign", "aligning", "deciding"}
\* max(0, 1 - t/T) <= rating, for T > 0, without fractions
AcceptedBySpec(rating, t, T) ==
    IF t >= T THEN rating.num >= 0 ELSE rating.num * T >= (T - t) * rating.den

\* C1: the suspension point only moves forward, one step at a time, in the order
\* start, wait_assign, aligning (Align), deciding (Decide), executing (Execute),
\* finished; Decide is entered only from Align with the align tactic done; every
\* set yielded in Align/Decide holds the align tactic and no passer, every set
\* yielded in Execute holds the passer and no align tactic.
C1_StageOrder ==
    [][/\ Rank(play'.pc) \in {Rank(play.pc), Rank(play.pc) + 1}
       /\ (play'.pc = "deciding" /\ play.pc # "deciding"
              => play.pc = "aligning" /\ align_done)
       /\ \A i \in DOMAIN play'.yielded :
             /\ play'.pc \in PreCommitPcs
                   => /\ Contains(play'.yielded[i], play'.align_to_ball_tactic)
                      /\ play'.passer = 0
             /\ play'.pc = "executing"
                   => /\ Contains(play'.yielded[i], play'.passer)
                      /\ ~Contains(play'.yielded[i], play'.align_to_ball_tactic)
             /\ play'.pc \in PreCommitPcs \cup {"executing"}
      ]_vars
C1_Witness == play.pc = "finished" /\ Len(play.heap) = 8

\* C2: a resumption in Decide commits exactly when the rating the generator holds
\* at that resumption is >= max(0, 1 - t/T), t the resumption's timestamp minus
\* the Decide-entry timestamp.
C2_CommitIffAccepted ==
    [][ResumeDeciding =>
          ((play'.pc = "executing") <=>
               AcceptedBySpec(play.pass_generator.best_pass_so_far.rating,
                              play'.world.timestamp - play.commit_stage_start_time,
                              MAX_TIME_TO_COMMIT_TO_PASS))]_vars
\* committed to a pass rated strictly between 0 and 1 while the threshold was
\* still above 0
C2_Witness ==
    /\ play.pc = "executing"
    /\ play.best_pass_and_score_so_far.rating.num > 0
    /\ play.best_pass_and_score_so_far.rating.num < play.best_pass_and_score_so_far.rating.den
    /\ play.min_score.num > 0

\* C3: the play is never suspended in Decide at a resumption whose timestamp is
\* MAX_TIME_TO_COMMIT_TO_PASS or more after the Decide-entry timestamp.
C3_DecideBounded ==
    play.pc = "deciding" =>
        play.world.timestamp - play.commit_stage_start_time < MAX_TIME_TO_COMMIT_TO_PASS
\* committed to a pass rated 0 once the threshold had reached 0
C3_Witness ==
    /\ play.pc = "executing"
    /\ play.best_pass_and_score_so_far.rating.num = 0
    /\ play.min_score.num = 0
    /\ play.world.timestamp - play.commit_stage_start_time >= MAX_TIME_TO_COMMIT_TO_PASS

\* C4: the committed pass is the generator's best pass at the commit resumption;
\* in Execute the passer and the receiver always hold exactly that pass, and no
\* step changes it.
C4_PassFrozen ==
    /\ [](play.pc = "executing" =>
             /\ play.pass \in Passes
             /\ play.heap[play.passer].params = <<play.pass>>
             /\ play.heap[play.receiver].params = <<play.pass>>)
    /\ [][ResumeDeciding /\ play'.pc = "executing" =>
             play'.pass = play.pass_generator.best_pass_so_far.pass]_vars
    /\ [][play.pc \in {"executing", "finished"} => play'.pass = play.pass]_vars
\* in Execute at a world later than the one of the commit resumption
C4_Witness ==
    /\ play.pc = "executing"
    /\ play.min_score.den = MAX_TIME_TO_COMMIT_TO_PASS
    /\ play.world.timestamp >
          play.commit_stage_start_time + (MAX_TIME_TO_COMMIT_TO_PASS - play.min_score.num)
    /\ play.heap[play.passer].params = <<play.pass>>

\* C5: before commitment every yielded set is exactly the six instances goalie,
\* align, cherry-pick +y, cherry-pick -y, bait 1, bait 2; in Execute exactly the
\* five instances goalie, passer, receiver, bait 1, bait 2; no instance twice.
TypesOf(set) == [i \in DOMAIN set |-> <<play.heap[set[i]].type, play.heap[set[i]].ctor>>]
CountType(set, type, ctor) ==
    Cardinality({i \in DOMAIN set : TypesOf(set)[i] = <<type, ctor>>})
C5_ExactSets ==
    \A i \in DOMAIN play.yielded :
        LET set == play.yielded[i] IN
        /\ Members(set) \subseteq DOMAIN play.heap
        /\ Cardinality(Members(set)) = Len(set)
        /\ play.pc \in PreCommitPcs =>
              /\ Len(set) = 6
              /\ Members(set) = {play.goalie_tactic, play.align_to_ball_tactic,
                                 play.cherry_pick_tactic_pos_y,
                                 play.cherry_pick_tactic_neg_y,
                                 play.bait_move_tactic_1, play.bait_move_tactic_2}
              /\ CountType(set, "GoalieTactic", <<>>) = 1
              /\ CountType(set, "MoveTactic", <<FALSE>>) = 1
              /\ CountType(set, "MoveTactic", <<TRUE>>) = 2
              /\ CountType(set, "CherryPickTactic", <<1>>) = 1
              /\ CountType(set, "CherryPickTactic", <<-1>>) = 1
        /\ play.pc = "executing" =>
              /\ Len(set) = 5
              /\ Members(set) = {play.goalie_tactic, play.passer, play.receiver,
                                 play.bait_move_tactic_1, play.bait_move_tactic_2}
              /\ CountType(set, "GoalieTactic", <<>>) = 1
              /\ CountType(set, "PasserTactic", <<play.pass>>) = 1
              /\ CountType(set, "ReceiverTactic", <<play.pass>>) = 1
              /\ CountType(set, "MoveTactic", <<TRUE>>) = 2
C5_Witness ==
    /\ play.pc = "executing"
    /\ receiver_done
    /\ Len(play.yielded) = 1
    /\ Len(play.yielded[1]) = 5

\* C6: a resumption in the wait-for-assignment loop with no robot assigned, and a
\* resumption in the align loop with the align tactic not done, stay where they
\* are and yield one set holding the align tactic; the align loop is entered only
\* with a robot assigned, Decide only from the align loop with the tactic done.
C6_AlignGate ==
    [][/\ (ResumeWaitAssign /\ assigned_robot = {}) =>
             /\ play'.pc = "wait_assign"
             /\ Len(play'.yielded) = 1
             /\ Contains(play'.yielded[1], play'.align_to_ball_tactic)
       /\ (ResumeAligning /\ ~align_done) =>
             /\ play'.pc = "aligning"
             /\ Len(play'.yielded) = 1
             /\ Contains(play'.yielded[1], play'.align_to_ball_tactic)
       /\ (play'.pc = "aligning" /\ play.pc # "aligning") =>
             /\ play.pc = "wait_assign"
             /\ assigned_robot # {}
             /\ play'.pass_generator.passer_robot_id = assigned_robot
       /\ (play'.pc = "deciding" /\ play.pc # "deciding") =>
             /\ play.pc = "aligning"
             /\ align_done
             /\ play.pass_generator.passer_robot_id # {}
      ]_vars
\* still waiting for a robot at a resumption after the first one: the ball has
\* changed sides since the bait positions were computed
C6_Witness ==
    /\ play.pc = "wait_assign"
    /\ assigned_robot = {}
    /\ play.heap[play.align_to_ball_tactic].params[1] =
          play.heap[play.bait_move_tactic_1].params[1]

\* C7: in every resumption, each read of getBestPassSoFar() comes after a call of
\* setWorld and a call of setPasserPoint made earlier in the same resumption.
C7_UpdateBeforeRead ==
    \A i \in DOMAIN play.generator_calls :
        play.generator_calls[i] = "getBestPassSoFar" =>
            /\ \E j \in 1..(i - 1) : play.generator_calls[j] = "setWorld"
            /\ \E j \in 1..(i - 1) : play.generator_calls[j] = "setPasserPoint"

\* C8 as stated: every resumption, the finishing one included, yields exactly one
\* tactic set.
C8_Original == play.pc # "start" => Len(play.yielded) = 1
\* C8: every resumption that suspends the play yields exactly one tactic set; the
\* resumption that finds the receiver done yields none.
C8_OneSetPerResumption ==
    /\ play.pc = "start" => play.yielded = <<>>
    /\ play.pc \in PreCommitPcs \cup {"executing"} => Len(play.yielded) = 1
    /\ play.pc = "finished" => Len(play.yielded) = 0
C8_Witness == play.pc = "finished" /\ play.yielded = <<>> /\ receiver_done

\* C9: a step of the play in Execute (a resumption) with the receiver not done re-applies the
\* committed pass and yields the Execute set; with the receiver done it finishes,
\* yields nothing and changes nothing of the play but its position, the world
\* snapshot it was handed and the per-resumption logs; once finished the play
\* never changes.
C9_ExecuteEnds ==
    /\ [][(play.pc = "executing" /\ play' # play /\ ~receiver_done) =>
             /\ play'.pc = "executing"
             /\ Len(play'.yielded) = 1
             /\ Members(play'.yielded[1]) =
                   {play.goalie_tactic, play.passer, play.receiver,
                    play.bait_move_tactic_1, play.bait_move_tactic_2}
             /\ play'.pass = play.pass
             /\ play'.heap[play.passer].params = <<play.pass>>
             /\ play'.heap[play.receiver].params = <<play.pass>>]_vars
    /\ [][(play.pc = "executing" /\ play' # play /\ receiver_done) =>
             /\ play'.pc = "finished"
             /\ play'.yielded = <<>>
             /\ [play' EXCEPT !.pc = play.pc, !.world = play.world,
                              !.yielded = play.yielded,
                              !.generator_calls = play.generator_calls] = play]_vars
    /\ [][play.pc = "finished" => play' = play]_vars
C9_Witness == play.pc = "finished" /\ play.pass \in Passes

\* C10 as stated: goalie, both baits and both cherry-picks are in every set
\* yielded in Align, Decide and Execute.
C10_Original ==
    \A i \in DOMAIN play.yielded :
        {play.goalie_tactic, play.bait_move_tactic_1, play.bait_move_tactic_2,
         play.cherry_pick_tactic_pos_y, play.cherry_pick_tactic_neg_y}
            \subseteq Members(play.yielded[i])
\* C10: goalie and both baits are in every set yielded in Align, Decide and
\* Execute; both cherry-picks are in every set yielded in Align and Decide, and
\* in no set yielded in Execute.
C10_SupportTactics ==
    \A i \in DOMAIN play.yielded :
        /\ {play.goalie_tactic, play.bait_move_tactic_1, play.bait_move_tactic_2}
              \subseteq Members(play.yielded[i])
        /\ play.pc \in PreCommitPcs =>
              {play.cherry_pick_tactic_pos_y, play.cherry_pick_tactic_neg_y}
                  \subseteq Members(play.yielded[i])
        /\ play.pc = "executing" =>
              {play.cherry_pick_tactic_pos_y, play.cherry_pick_tactic_neg_y}
                  \cap Members(play.yielded[i]) = {}
C10_Witness ==
    /\ play.pc = "executing"
    /\ Len(play.yielded) = 1
    /\ ~Contains(play.yielded[1], play.cherry_pick_tactic_pos_y)
    /\ Contains(play.yielded[1], play.bait_move_tactic_2)

\* the play is where a resumption in Decide left it: that resumption began with
\* the read of line 198
AfterDecideResumption ==
    /\ play.pc \in {"deciding", "executing"}
    /\ play.generator_calls # <<>>
    /\ play.generator_calls[1] = "getBestPassSoFar"
\* C11: within one Decide stage, with timestamps that do not decrease, the
\* threshold min_score never grows from one resumption to the next, is 0 after
\* every resumption whose elapsed time is MAX_TIME_TO_COMMIT_TO_PASS or more, and
\* is always between 0 and 1.
C11_ThresholdMonotone ==
    /\ [](/\ ~RatLess(play.min_score, Rat(0, 1))
          /\ ~RatLess(RatOne, play.min_score))
    /\ [][(play.pc = "deciding" /\ play'.world.timestamp >= play.world.timestamp)
             => ~RatLess(play.min_score, play'.min_score)]_vars
    /\ []((AfterDecideResumption /\ play.world.timestamp - play.commit_stage_start_time
                                        >= MAX_TIME_TO_COMMIT_TO_PASS)
             => play.min_score.num = 0)
\* still deciding after the threshold has decayed below 1: the next resumption
\* computes it from a threshold that is neither 1 nor 0
C11_Witness ==
    /\ play.pc = "deciding"
    /\ play.min_score.num > 0
    /\ play.min_score.num < play.min_score.den
    /\ play.world.timestamp > play.commit_stage_start_time

\* C15: a local that holds a tactic instance keeps holding that instance; an
\* instance keeps its type and constructor arguments; a step constructs instances
\* only for locals that held none.  So the goalie and the two baits of every
\* yielded set are the same instances, the sets yielded before the commit are the
\* same sequence of instances, and so are the sets yielded in Execute.
TacticLocals ==
    {"goalie_tactic", "bait_move_tactic_1", "bait_move_tactic_2",
     "align_to_ball_tactic", "cherry_pick_tactic_pos_y", "cherry_pick_tactic_neg_y",
     "passer", "receiver"}
C15_TacticIdentity ==
    [][play' # play =>
          /\ \A l \in TacticLocals : play[l] # 0 => play'[l] = play[l]
          /\ \A h \in DOMAIN play.heap :
                /\ h \in DOMAIN play'.heap
                /\ play'.heap[h].type = play.heap[h].type
                /\ play'.heap[h].ctor = play.heap[h].ctor
          /\ Len(play'.heap) - Len(play.heap) =
                Cardinality({l \in TacticLocals : play[l] = 0 /\ play'[l] # 0})
          /\ \A i \in DOMAIN play.yielded, j \in DOMAIN play'.yielded :
                /\ {play.goalie_tactic, play.bait_move_tactic_1,
                    play.bait_move_tactic_2}
                      \subseteq Members(play.yielded[i]) \cap Members(play'.yielded[j])
                /\ play'.pc \in PreCommitPcs => play'.yielded[j] = play.yielded[i]
                /\ play.pc = "executing" => play'.yielded[j] = play.yielded[i]
      ]_vars
\* an Execute set yielded by a resumption after the commit one, made of the goalie
\* constructed first and the passer constructed at the commit
C15_Witness ==
    /\ play.pc = "executing"
    /\ play.generator_calls = <<>>
    /\ play.goalie_tactic = 1
    /\ play.passer = 7
    /\ play.yielded[1][1] = 1
    /\ play.yielded[1][2] = 7

\* the calls of setPasserRobotId made by the last resumption
PasserRegistrations ==
    {i \in DOMAIN play.generator_calls : play.generator_calls[i] = "setPasserRobotId"}
\* C17 as stated: setPasserRobotId is called only by the resumption that enters
\* Decide, after the align tactic has reported done; once, with the id of the
\* assigned robot, and before any read of getBestPassSoFar() made in Decide.
C17_Original ==
    /\ PasserRegistrations # {} => play.pc = "deciding"
    /\ Cardinality(PasserRegistrations) <= 1
    /\ play.pc = "deciding" => play.pass_generator.passer_robot_id # {}
\* C17: setPasserRobotId is called by the resumption that first sees a robot
\* assigned to the align tactic, before the align loop's first yield and whether
\* or not the tactic is done; it is called once, as the first call of that
\* resumption, with the id of the robot then assigned; no other resumption calls
\* it, and the id is registered before every read made in Decide.
C17_PasserRegistered ==
    /\ [](PasserRegistrations # {} =>
             /\ play.pc = "aligning"
             /\ PasserRegistrations = {1})
    /\ [][(play'.generator_calls # play.generator_calls
              /\ \E i \in DOMAIN play'.generator_calls :
                    play'.generator_calls[i] = "setPasserRobotId") =>
             /\ play.pc = "wait_assign"
             /\ assigned_robot # {}
             /\ play.pass_generator.passer_robot_id = {}
             /\ play'.pass_generator.passer_robot_id = assigned_robot]_vars
    /\ [][(play.pc = "wait_assign" /\ play' # play /\ UNCHANGED envVars
              /\ play'.pass_generator.best_pass_so_far
                    = play.pass_generator.best_pass_so_far) =>
             IF assigned_robot = {}
             THEN play'.pass_generator.passer_robot_id = {}
             ELSE play'.generator_calls[1] = "setPasserRobotId"]_vars
    /\ [](play.pc = "wait_assign" => play.pass_generator.passer_robot_id = {})
    /\ [](play.pc \in {"aligning", "deciding"} =>
             play.pass_generator.passer_robot_id # {})
\* the passer is registered while the align tactic is not done: the play is
\* suspended at the align loop's first yield
C17_Witness ==
    /\ play.pc = "aligning"
    /\ PasserRegistrations = {1}
    /\ ~align_done
    /\ assigned_robot # {}
    /\ play.pass_generator.passer_robot_id = assigned_robot

\* C18: the align loop, the decide loop and the execute loop are do-while loops:
\* the resumption that leaves the wait-for-assignment loop suspends at the align
\* yield with an Align set, the one that leaves the align loop suspends at the
\* decide yield with a pre-commit set and no pass committed, the one that leaves
\* the decide loop suspends at the execute yield with an Execute set; whatever
\* the align tactic, the ratings and the receiver report at that resumption.
C18_YieldBeforeTest ==
    /\ [][(play.pc = "wait_assign" /\ play'.pc # "wait_assign") =>
             /\ play'.pc = "aligning"
             /\ Len(play'.yielded) = 1
             /\ play'.yielded[1] = PreCommitSet(play)]_vars
    /\ [][(play.pc = "aligning" /\ play'.pc # "aligning") =>
             /\ play'.pc = "deciding"
             /\ Len(play'.yielded) = 1
             /\ play'.yielded[1] = PreCommitSet(play)
             /\ play'.pass = 0
             /\ play'.passer = 0
             /\ play'.min_score = RatOne]_vars
    /\ [][(play.pc = "deciding" /\ play'.pc # "deciding") =>
             /\ play'.pc = "executing"
             /\ Len(play'.yielded) = 1
             /\ play'.yielded[1] = ExecuteSet(play')
             /\ play'.passer # 0]_vars
\* suspended in Decide by the resumption that entered it, although the align
\* tactic is done and both the pass read at line 153 and the generator's current
\* best pass are rated 1
C18_Witness ==
    /\ play.pc = "deciding"
    /\ play.generator_calls = <<"setWorld", "setPasserPoint">>
    /\ align_done
    /\ play.pass = 0
    /\ play.best_pass_and_score_so_far.rating.num
          = play.best_pass_and_score_so_far.rating.den
    /\ play.pass_generator.best_pass_so_far.rating.num
          = play.pass_generator.best_pass_so_far.rating.den

\* the ball is within BALL_IN_CORNER_RADIUS of one of the two enemy corners
WithinCornerRadius(b) ==
    \E corner \in {enemyCornerPos, enemyCornerNeg} :
        LengthSquared(Minus(corner, b)) <= BALL_IN_CORNER_RADIUS * BALL_IN_CORNER_RADIUS

\* C12: isApplicable returns true exactly when the friendly team holds an awarded
\* free kick and the ball is at most BALL_IN_CORNER_RADIUS from the nearer enemy
\* corner, the boundary included.
C12_IsApplicable ==
    call.fn = "isApplicable" =>
        (call.result <=> (call.world.isOurFreeKick /\ WithinCornerRadius(call.world.ball)))
\* applicable with the ball exactly on the boundary around the negative corner
C12_Witness ==
    /\ call.fn = "isApplicable"
    /\ call.result
    /\ LengthSquared(Minus(enemyCornerNeg, call.world.ball))
          = BALL_IN_CORNER_RADIUS * BALL_IN_CORNER_RADIUS
    /\ LengthSquared(Minus(enemyCornerPos, call.world.ball))
          > BALL_IN_CORNER_RADIUS * BALL_IN_CORNER_RADIUS

\* C13 as stated: isApplicable is true exactly when the opposing team holds an
\* awarded free kick and the ball is within the corner radius.
C13_Original ==
    call.fn = "isApplicable" =>
        (call.result <=> (call.world.isTheirFreeKick /\ WithinCornerRadius(call.world.ball)))
\* C13: isApplicable is true in every world where the friendly team holds an
\* awarded free kick and the ball is within the corner radius, and false in every
\* other world: whenever the opposing team holds the free kick, whenever nobody
\* does, and whenever the ball is outside the radius.
C13_FriendlyFreeKick ==
    call.fn = "isApplicable" =>
        /\ (call.world.isOurFreeKick /\ WithinCornerRadius(call.world.ball))
              => call.result
        /\ call.world.isTheirFreeKick => ~call.result
        /\ ~call.world.isOurFreeKick => ~call.result
        /\ ~WithinCornerRadius(call.world.ball) => ~call.result
\* not applicable although the opposing team holds a free kick with the ball in
\* the corner
C13_Witness ==
    /\ call.fn = "isApplicable"
    /\ ~call.result
    /\ call.world.isTheirFreeKick
    /\ call.world.ball = enemyCornerPos

\* C14: invariantHolds returns true exactly when the game state is playing or
\* ready and the enemy team has no possession or a friendly pass is in progress;
\* it is false whenever the game state is neither playing nor ready.
C14_InvariantHolds ==
    call.fn = "invariantHolds" =>
        /\ call.result <=>
              /\ TRUE \in {call.world.isPlaying, call.world.isReadyState}
              /\ (call.world.enemyHasPossession => call.world.friendlyPassInProgress)
        /\ (~call.world.isPlaying /\ ~call.world.isReadyState) => ~call.result
\* holds although the enemy team has possession: a friendly pass is in progress
C14_Witness ==
    /\ call.fn = "invariantHolds"
    /\ call.result
    /\ call.world.enemyHasPossession
    /\ call.world.isReadyState

\* C16: the threshold 1 - min(t/T, 1) of lines 204-206 equals max(0, 1 - t/T) for
\* every elapsed time t >= 0 and every T > 0; it is 1 at t = 0 and 0 for t >= T.
C16_ThresholdFormula ==
    call.fn = "min_score" =>
        LET t == call.elapsed
            T == MAX_TIME_TO_COMMIT_TO_PASS
            one_minus == Rat(T - t, T)
            max_0 == IF RatLess(one_minus, Rat(0, 1)) THEN Rat(0, 1) ELSE one_minus
        IN  /\ ~RatLess(call.result, max_0) /\ ~RatLess(max_0, call.result)
            /\ t = 0 => call.result.num = call.result.den
            /\ t >= T => call.result.num = 0
\* the clamped case: an elapsed time beyond MAX_TIME_TO_COMMIT_TO_PASS
C16_Witness ==
    /\ call.fn = "min_score"
    /\ call.elapsed > MAX_TIME_TO_COMMIT_TO_PASS
    /\ call.result.num = 0

\* the state the flight conditions of updateIsInFlight are tested on
InFlight == ball.in_flight_origin # {}
TravelledFarEnough ==
    \A o \in ball.in_flight_origin :
        Abs(ball.position - o) >= ball.in_flight_distance_meters
\* C19: a new ball is not in flight; setInFlightForDistance puts it in flight,
\* with its position as the origin; a ball in flight stops being in flight only
\* in a query (isInFlight, getBallState) made where it is at least the flight
\* distance from the origin and touches nothing, and every such query lands it;
\* a ball not in flight stays so under every movement, contact and query until
\* setInFlightForDistance is called.
C19_FlightState ==
    /\ ~InFlight
    /\ [][SetInFlightForDistance =>
             ball'.in_flight_origin = {ball.position}]_vars
    /\ [][(InFlight /\ ball'.in_flight_origin = {}) =>
             /\ CallIsInFlight \/ CallGetBallState
             /\ TravelledFarEnough
             /\ ~ball.touching]_vars
    /\ [][(InFlight /\ (CallIsInFlight \/ CallGetBallState)) =>
             /\ ball'.in_flight_origin = {} <=> (TravelledFarEnough /\ ~ball.touching)
             /\ ball'.result.in_flight <=> ball'.in_flight_origin # {}]_vars
    /\ [][(~InFlight /\ ball'.in_flight_origin # {}) => SetInFlightForDistance]_vars
    /\ [][(~InFlight /\ (CallIsInFlight \/ CallGetBallState)) =>
             ~ball'.result.in_flight]_vars
\* landed by a query: past a flight distance above 0, away from where it was
\* kicked, touching nothing
C19_Witness ==
    /\ ball.constructed
    /\ ~InFlight
    /\ ball.result.fn = "isInFlight"
    /\ ~ball.result.value
    /\ ball.in_flight_distance_meters > 0
    /\ ~ball.touching

\* C20: the distance from the ground returned by getBallState() is never
\* negative, is 0 whenever the ball is not in flight as the query returns (the
\* query that lands it included), and is at least ROBOT_MAX_HEIGHT_METERS
\* whenever the ball is in flight and touching another object.
C20_Height ==
    (ball.constructed /\ ball.result.fn = "getBallState") =>
        LET h == ball.result.value.distance_from_ground IN
        /\ ~DLess(h, Fin(0, 1))
        /\ ~ball.result.in_flight => h = Fin(0, 1)
        /\ (ball.result.in_flight /\ ball.result.touching) =>
              (h = ROBOT_MAX_HEIGHT_METERS \/ DLess(ROBOT_MAX_HEIGHT_METERS, h))

====
